---- MODULE Spec2Model ----
(***************************************************************************)
(* A model of mobx-rest's Model (entity) and Collection (entity set):      *)
(* the committed/working attribute maps, the diff and patch-merge          *)
(* functions, the optimistic save / destroy / create protocols with their  *)
(* asynchronous completions, and the collection's reconciliation.          *)
(*                                                                         *)
(* Encoding of JavaScript values.  Every value is a tagged record so that  *)
(* any two values can be compared:                                         *)
(*   Num(n)   a number; Num(0) is the only falsy number.  The strings      *)
(*            uniqueId('i_') produces are encoded as the negative numbers  *)
(*            Num(-e), which are truthy like the non-empty strings.        *)
(*   ObjV(o)  a plain object, o a function from its keys to values         *)
(*   ArrV(a)  an array, a a sequence of values                             *)
(*   Undef    undefined                                                    *)
(* An attribute map (ObservableMap, or the plain object toJS makes of it)  *)
(* is a function from its keys to values; a key that is absent is not in   *)
(* its DOMAIN.                                                             *)
(***************************************************************************)
EXTENDS Integers, Sequences, FiniteSets, Bags, TLC

VARIABLES
    alive,                \* the entities constructed so far
    attributes,           \* Model.attributes of each entity (working)
    committedAttributes,  \* Model.committedAttributes of each entity
    collection,           \* Model.collection of each entity (owner)
    models,               \* Collection.models of each set
    held,                 \* the entities the caller holds a reference to
    assigned,             \* the primary key a server response first gave each
    requests,             \* the requests in flight (a bag)
    registry,             \* Collection.requests of each set
    last,                 \* the operation or completion that ran last
    pa, pb,               \* inputs of the diff/patch functions
    pchanges, ppatched,   \* getChangesBetween(pa, pb) and the patched pa
    pstage                \* how far the diff/patch computation has got

entityVars == <<alive, attributes, committedAttributes, collection, models,
                held, assigned, requests, registry, last>>
patchVars == <<pa, pb, pchanges, ppatched, pstage>>
vars == <<alive, attributes, committedAttributes, collection, models,
          held, assigned, requests, registry, last,
          pa, pb, pchanges, ppatched, pstage>>

(***************************************************************************)
(* Bounds                                                                  *)
(***************************************************************************)
NumEntities == 2
MaxId == 1
MaxName == 1
MaxRequests == 1
MaxScalar == 1
MaxResources == 2

(***************************************************************************)
(* Values                                                                  *)
(***************************************************************************)
Num(n) == [tag |-> "num", n |-> n]
ObjV(o) == [tag |-> "obj", o |-> o]
ArrV(a) == [tag |-> "arr", a |-> a]
Undef == [tag |-> "undef"]
EmptyObject == <<>>

\* JavaScript truthiness of a value: undefined and 0 are falsy.
Truthy(v) == CASE v.tag = "undef" -> FALSE
               [] v.tag = "num" -> v.n # 0
               [] OTHER -> TRUE

\* source[key]: reading a property that is absent yields undefined.
Prop(o, k) == IF k \in DOMAIN o THEN o[k] ELSE Undef

isPlainObject(v) == v.tag = "obj"
isArray(v) == v.tag = "arr"
isEqual(u, v) == u = v

\* Object spread {...a, ...b} and ObservableMap.merge: b's keys win.
Merge(a, b) == [k \in DOMAIN a \cup DOMAIN b |->
                   IF k \in DOMAIN b THEN b[k] ELSE a[k]]

(***************************************************************************)
(* The diff functions                                                      *)
(***************************************************************************)
getChangedAttributesBetween(source, target) ==
    {k \in DOMAIN source \cup DOMAIN target :
        ~isEqual(Prop(source, k), Prop(target, k))}

getChangesBetweenWhole(source, target) ==
    [k \in getChangedAttributesBetween(source, target) |-> Prop(target, k)]

RECURSIVE getChangesBetween(_, _)
getChangesBetween(source, target) ==
    [k \in getChangedAttributesBetween(source, target) |->
        IF isPlainObject(Prop(source, k)) /\ isPlainObject(Prop(target, k))
        THEN ObjV(getChangesBetween(source[k].o, target[k].o))
        ELSE Prop(target, k)]

(***************************************************************************)
(* deepmerge(target, source, {arrayMerge: dontMergeArrays}) on two plain   *)
(* objects: every key of source is written; a plain object is merged into  *)
(* a plain object recursively, anything else (a scalar, undefined, an      *)
(* array, or an object over a non-object) replaces the old value.          *)
(***************************************************************************)
RECURSIVE deepmerge(_, _)
deepmerge(target, source) ==
    [k \in DOMAIN target \cup DOMAIN source |->
        IF k \notin DOMAIN source THEN target[k]
        ELSE IF isPlainObject(source[k]) /\ k \in DOMAIN target
                /\ isPlainObject(target[k])
             THEN ObjV(deepmerge(target[k].o, source[k].o))
             ELSE source[k]]

applyPatchChangesShallow(oldAttributes, changes) == Merge(oldAttributes, changes)

applyPatchChanges(oldAttributes, changes) == deepmerge(oldAttributes, changes)

(***************************************************************************)
(* The plain structures the diff/patch functions are run on: name holds a  *)
(* leaf, meta a leaf or an object of leaves; either may be absent.         *)
(***************************************************************************)
Scalars == {Num(n) : n \in 0..MaxScalar}
Arrays == {ArrV(<<Num(0)>>), ArrV(<<Num(0), Num(1)>>)}
Leaves == Scalars \cup Arrays

MapsOver(keys, values) ==
    UNION {[ks -> values] : ks \in SUBSET keys}

SubObjects == MapsOver({"x", "y"}, Leaves)
PlainStructures ==
    {Merge(n, m) : n \in MapsOver({"name"}, Leaves),
                   m \in MapsOver({"meta"}, Leaves \cup {ObjV(o) : o \in SubObjects})}

(***************************************************************************)
(* Entities, sets and requests                                             *)
(***************************************************************************)
Entities == 1..NumEntities
Sets == {"A"}
NoCollection == "null"
NoEntity == CHOOSE n \in 0..NumEntities : n \notin Entities

primaryKey == "id"
defaultAttributes == EmptyObject

\* uniqueId('i_'): a string no other entity has and no server id equals.
optimisticId(e) == Num(0 - e)

\* What the caller passes to set, reset and save, and what it builds from.
Names == {Num(n) : n \in 1..MaxName}
ServerIds == {Num(i) : i \in 1..MaxId}
AnyIds == {Num(i) : i \in 0..MaxId}
CallerData == MapsOver({"name"}, Names) \ {EmptyObject}
CallerDataWithId ==
    {Merge(i, n) : i \in MapsOver({"id"}, AnyIds), n \in MapsOver({"name"}, Names)}
        \ {EmptyObject}

has(e, attribute) == attribute \in DOMAIN attributes[e]
get(e, attribute) == attributes[e][attribute]

isNewOf(attrs) ==
    IF primaryKey \in DOMAIN attrs THEN ~Truthy(attrs[primaryKey]) ELSE TRUE
isNew(e) == isNewOf(attributes[e])

idOf(attrs, e) ==
    IF primaryKey \in DOMAIN attrs THEN attrs[primaryKey] ELSE optimisticId(e)

id(e) == idOf(attributes[e], e)

changes(e) == getChangesBetween(committedAttributes[e], attributes[e])
changedAttributes(e) ==
    getChangedAttributesBetween(committedAttributes[e], attributes[e])
hasChanges(e) == changedAttributes(e) # {}

\* A request in flight: what its completion handlers closed over.
\*   kind              "save", "fetch", "destroy" or "fetchAll"
\*   e                 the entity (NoEntity for a collection fetch)
\*   s                 the set: Model.destroy's captured collection, the
\*                     set Collection.create or Collection.fetch ran on
\*   currentAttributes Model.save's snapshot
\*   urlId             the primary key the url named, Undef for a POST
\*   method, data      the verb and the payload handed to apiClient
\*   working           (history) the working attributes as save() left them
\*   created           the save was issued by Collection.create
\*   fresh             Collection.create built the entity from attributes
\*   add/change/remove the options Collection.fetch forwards
Request(kind, e, s, cur, urlId, optimistic, keepChanges, created, fresh, opts) ==
    [kind |-> kind, e |-> e, s |-> s, currentAttributes |-> cur, urlId |-> urlId,
     optimistic |-> optimistic, keepChanges |-> keepChanges,
     created |-> created, fresh |-> fresh, opts |-> opts,
     method |-> IF kind = "destroy" THEN "del" ELSE "get",
     data |-> EmptyObject, working |-> EmptyObject]

AllOpts == [add : BOOLEAN, change : BOOLEAN, remove : BOOLEAN]
DefaultOpts == [add |-> TRUE, change |-> TRUE, remove |-> TRUE]

Pending == BagToSet(requests)
CanIssue == BagCardinality(requests) < MaxRequests
Issue(r) == requests (+) SetToBag({r})
Settle(r) == requests (-) SetToBag({r})

\* The resource a well-behaved server answers a save or a fetch of one
\* entity with: the primary key the url named, or for a POST a key no entity
\* of the client has yet; the name may be the server's own.
PrimaryKeysInUse ==
    {attributes[e][primaryKey] : e \in {x \in alive : has(x, primaryKey)}}
ResponseIds(r) ==
    IF r.urlId = Undef THEN ServerIds \ PrimaryKeysInUse ELSE {r.urlId}
Responses(r) ==
    {Merge([k \in {primaryKey} |-> i], n) :
        i \in ResponseIds(r), n \in MapsOver({"name"}, Names)}

(***************************************************************************)
(* The methods, as functions of a state record st (the fields are the      *)
(* variables they may change; overflow is set when an entity would have to *)
(* be constructed and the bounded pool has none left).                     *)
(***************************************************************************)
Now == [alive |-> alive, attributes |-> attributes,
        committedAttributes |-> committedAttributes,
        collection |-> collection, models |-> models, held |-> held,
        registry |-> registry, overflow |-> FALSE]

Becomes(st) ==
    /\ ~st.overflow
    /\ alive' = st.alive
    /\ attributes' = st.attributes
    /\ committedAttributes' = st.committedAttributes
    /\ collection' = st.collection
    /\ models' = st.models
    /\ held' = st.held
    /\ registry' = st.registry

\* What a method is handed where the code accepts "attributes or a Model".
AModel(e) == [isModel |-> TRUE, e |-> e, raw |-> EmptyObject]
Raw(attrs) == [isModel |-> FALSE, e |-> NoEntity, raw |-> attrs]
\* What Collection.remove is handed: a Model or an id.
AnId(v) == [isModel |-> FALSE, e |-> NoEntity, raw |-> v]

\* Model.set, Model.reset, Model.commitChanges, Model.discardChanges
modelSet(st, e, data) ==
    [st EXCEPT !.attributes[e] = Merge(@, data)]
modelReset(st, e, data) ==
    [st EXCEPT !.attributes[e] = Merge(defaultAttributes, data)]
commitChanges(st, e) ==
    [st EXCEPT !.committedAttributes[e] = st.attributes[e]]
discardChanges(st, e) ==
    [st EXCEPT !.attributes[e] = st.committedAttributes[e]]

\* new Model(attributes): the next free entity, its attributes the defaults
\* overlaid with the given ones, committed at once.
NextEntity(st) ==
    IF st.alive = Entities THEN NoEntity
    ELSE CHOOSE e \in Entities \ st.alive : \A f \in Entities \ st.alive : e <= f

constructorUncommitted(st, attrs, defaults) ==
    LET e == NextEntity(st) IN
    IF e = NoEntity THEN [st EXCEPT !.overflow = TRUE]
    ELSE [st EXCEPT !.alive = @ \cup {e},
                    !.attributes[e] = Merge(defaults, attrs)]

constructor(st, attrs, defaults) ==
    LET e == NextEntity(st) IN
    IF e = NoEntity THEN [st EXCEPT !.overflow = TRUE]
    ELSE commitChanges(
            [st EXCEPT !.alive = @ \cup {e},
                       !.attributes[e] = Merge(defaults, attrs)], e)

construct(st, attrs) == constructor(st, attrs, defaultAttributes)

\* Collection.build and the entity it returns
built(st, x) == IF x.isModel THEN x.e ELSE NextEntity(st)

build(st, s, x) ==
    LET made == IF x.isModel THEN st ELSE construct(st, x.raw)
        e == built(st, x) IN
    IF made.overflow THEN made ELSE [made EXCEPT !.collection[e] = s]

\* Collection.add of a list: build each, push them all; they are returned
\* to the caller and can be read from the set.
RECURSIVE add(_, _, _)
add(st, s, data) ==
    IF data = <<>> \/ st.overflow THEN st
    ELSE LET x == Head(data)
             e == built(st, x)
             b == build(st, s, x) IN
         IF b.overflow THEN b
         ELSE add([b EXCEPT !.models[s] = Append(@, e), !.held = @ \cup {e}],
                  s, Tail(data))

\* Collection.get: the first member with that id, NoEntity if there is none
\* (IndexWhere: the first index at which a sequence of booleans holds TRUE,
\* 0 if there is none)
IndexWhere(hits) ==
    IF \E i \in 1..Len(hits) : hits[i]
    THEN CHOOSE i \in 1..Len(hits) : hits[i] /\ \A j \in 1..(i - 1) : ~hits[j]
    ELSE 0

collectionGet(st, s, v) ==
    LET ms == st.models[s]
        i == IndexWhere([j \in 1..Len(ms) |-> idOf(st.attributes[ms[j]], ms[j]) = v]) IN
    IF i = 0 THEN NoEntity ELSE ms[i]

\* Collection._ids: the members' ids, the falsy ones filtered out
SelectTruthy(seq) == SelectSeq(seq, Truthy)
_ids(st, s) ==
    SelectTruthy([i \in 1..Len(st.models[s]) |->
                    idOf(st.attributes[st.models[s][i]], st.models[s][i])])

\* models.splice(models.indexOf(model), 1): indexOf is -1 for a model that
\* is not in the array, and splice(-1, 1) removes the last element.
RemoveAt(seq, i) == SubSeq(seq, 1, i - 1) \o SubSeq(seq, i + 1, Len(seq))
splice(seq, model) ==
    LET i == IndexWhere([j \in 1..Len(seq) |-> seq[j] = model]) IN
    IF i = 0 THEN (IF seq = <<>> THEN seq ELSE RemoveAt(seq, Len(seq)))
    ELSE RemoveAt(seq, i)

\* Collection.remove of a list of models and ids
resolve(st, s, x) ==
    IF x.isModel THEN (IF st.collection[x.e] = s THEN x.e ELSE NoEntity)
    ELSE collectionGet(st, s, x.raw)

RECURSIVE remove(_, _, _)
remove(st, s, ids) ==
    IF ids = <<>> THEN st
    ELSE LET model == resolve(st, s, Head(ids)) IN
         IF model = NoEntity THEN remove(st, s, Tail(ids))
         ELSE remove([st EXCEPT !.models[s] = splice(@, model),
                                !.collection[model] = NoCollection],
                     s, Tail(ids))

\* Collection.reset: models.replace(data.map(build)); the members dropped
\* keep their collection field.
reset(st, s, data) == add([st EXCEPT !.models[s] = <<>>], s, data)

\* Collection.set: remove the members whose id is not among the resources',
\* then change or add per resource.
difference(seq, others) ==
    SelectSeq(seq, LAMBDA v : \A i \in 1..Len(others) : others[i] # v)

RECURSIVE setEachAlwaysChanges(_, _, _, _)
setEachAlwaysChanges(st, s, resources, opts) ==
    IF resources = <<>> \/ st.overflow THEN st
    ELSE LET resource == Head(resources)
             model == collectionGet(st, s, Prop(resource, "id"))
             next == IF model # NoEntity
                       THEN modelSet(st, model, resource)
                     ELSE IF opts.add
                       THEN add(st, s, <<Raw(resource)>>)
                     ELSE st IN
         setEachAlwaysChanges(next, s, Tail(resources), opts)

RECURSIVE setEach(_, _, _, _)
setEach(st, s, resources, opts) ==
    IF resources = <<>> \/ st.overflow THEN st
    ELSE LET resource == Head(resources)
             model == collectionGet(st, s, Prop(resource, "id"))
             next == IF model # NoEntity /\ opts.change
                       THEN modelSet(st, model, resource)
                     ELSE IF model = NoEntity /\ opts.add
                       THEN add(st, s, <<Raw(resource)>>)
                     ELSE st IN
         setEach(next, s, Tail(resources), opts)

collectionSet(st, s, resources, opts) ==
    LET ids == [i \in 1..Len(resources) |-> Prop(resources[i], "id")]
        toRemove == difference(_ids(st, s), ids)
        removed == IF opts.remove /\ toRemove # <<>>
                   THEN remove(st, s, [i \in 1..Len(toRemove) |-> AnId(toRemove[i])])
                   ELSE st IN
    setEach(removed, s, resources, opts)

\* Model.save up to the request: the optimistic write
NoAttributes == [tag |-> "none"]

savePayloadFull(st, e, attrs, patch) ==
    Merge(st.attributes[e], IF attrs = NoAttributes THEN EmptyObject ELSE attrs)

savePayload(st, e, attrs, patch) ==
    IF patch /\ attrs # NoAttributes /\ ~isNewOf(st.attributes[e]) THEN attrs
    ELSE IF patch /\ ~isNewOf(st.attributes[e])
         THEN getChangesBetween(st.committedAttributes[e], st.attributes[e])
    ELSE Merge(st.attributes[e],
               IF attrs = NoAttributes THEN EmptyObject ELSE attrs)

saveMethod(st, e, patch) ==
    IF isNewOf(st.attributes[e]) THEN "post" ELSE IF patch THEN "patch" ELSE "put"

saveOptimistic(st, e, attrs, optimistic, patch) ==
    IF optimistic /\ attrs # NoAttributes
    THEN modelSet(st, e, IF patch THEN applyPatchChanges(st.attributes[e], attrs)
                         ELSE attrs)
    ELSE st

saveRequest(st, e, attrs, optimistic, patch, keepChanges, created, fresh, s) ==
    [Request("save", e, s, st.attributes[e],
             IF isNewOf(st.attributes[e]) THEN Undef
             ELSE st.attributes[e][primaryKey],
             optimistic, keepChanges, created, fresh, DefaultOpts)
        EXCEPT !.method = saveMethod(st, e, patch),
               !.data = savePayload(st, e, attrs, patch),
               !.working = saveOptimistic(st, e, attrs, optimistic, patch).attributes[e]]

\* The success handler of Model.save
saveSucceeded(st, r, data) ==
    LET e == r.e
        chg == getChangesBetween(r.currentAttributes, st.attributes[e])
        done == commitChanges(modelSet(st, e, data), e) IN
    IF r.keepChanges THEN modelSet(done, e, applyPatchChanges(data, chg)) ELSE done

\* The failure handler of Model.save
saveFailed(st, r) == modelSet(st, r.e, r.currentAttributes)

\* Collection.create after the save is issued, and the handlers it chains
\* on the save's promise
createNowAlways(st, s, e, optimistic) == add(st, s, <<AModel(e)>>)

createNow(st, s, e, optimistic) ==
    IF optimistic THEN add(st, s, <<AModel(e)>>) ELSE st

\* this.requests.push(request) and this.requests.remove(request): remove
\* takes out the first occurrence, if there is one.
RemoveFirst(seq, v) ==
    LET i == IndexWhere([j \in 1..Len(seq) |-> seq[j] = v]) IN
    IF i = 0 THEN seq ELSE RemoveAt(seq, i)
requestsPush(st, s, r) == [st EXCEPT !.registry[s] = Append(@, r)]
requestsRemove(st, s, r) == [st EXCEPT !.registry[s] = RemoveFirst(@, r)]

createSucceeded(st, r) ==
    IF r.created = "no" THEN st
    ELSE requestsRemove(IF r.created = "deferred"
                        THEN add(st, r.s, <<AModel(r.e)>>) ELSE st, r.s, r)

createFailedKeepsRequest(st, r) ==
    IF r.created = "optimistic" THEN remove(st, r.s, <<AModel(r.e)>>) ELSE st

createFailed(st, r) ==
    IF r.created = "no" THEN st
    ELSE requestsRemove(IF r.created = "optimistic"
                        THEN remove(st, r.s, <<AModel(r.e)>>) ELSE st, r.s, r)

\* The handlers of Model.fetch and Collection.fetch
fetchSucceeded(st, r, data) == commitChanges(modelSet(st, r.e, data), r.e)
fetchFailed(st, r) == st
fetchAllSucceeded(st, r, data) == collectionSet(st, r.s, data, r.opts)
fetchAllFailedClears(st, r) == [st EXCEPT !.models[r.s] = <<>>]
fetchAllFailed(st, r) == st

\* Model.destroy's synchronous part and its handlers
destroyNow(st, e, optimistic) ==
    LET owner == st.collection[e] IN
    IF owner # NoCollection /\ (isNewOf(st.attributes[e]) \/ optimistic)
    THEN remove(st, owner, <<AModel(e)>>) ELSE st

destroySucceeded(st, r) ==
    IF ~r.optimistic /\ r.s # NoCollection
    THEN remove(st, r.s, <<AModel(r.e)>>) ELSE st

destroyFailed(st, r) ==
    IF r.optimistic /\ r.s # NoCollection
    THEN add(st, r.s, <<AModel(r.e)>>) ELSE st

(***************************************************************************)
(* What the caller and the server supply                                   *)
(***************************************************************************)
\* A server resource: a primary key (0 is a key a backend may use) and
\* possibly a name.
Resources ==
    {Merge([k \in {"id"} |-> i], n) : i \in AnyIds, n \in MapsOver({"name"}, Names)}

\* The resource lists: no two resources of a list share an id.
ResourceLists ==
    {rs \in UNION {[1..n -> Resources] : n \in 0..MaxResources} :
        \A i, j \in 1..Len(rs) : i # j => rs[i].id # rs[j].id}

Members(ms) == {ms[i] : i \in 1..Len(ms)}
IdsIn(st, s) == {idOf(st.attributes[m], m) : m \in Members(st.models[s])}

\* Keeping ids unique is the caller's part in add and create: it hands over
\* nothing whose id a member already has.
CallerMayAdd(s, e) == id(e) \notin IdsIn(Now, s)

Idle == UNCHANGED patchVars

\* History: the primary key the first server response gave the entity.
Assigns(e, data) ==
    assigned' = IF assigned[e] = Undef /\ primaryKey \in DOMAIN data
                THEN [assigned EXCEPT ![e] = data[primaryKey]] ELSE assigned

(***************************************************************************)
(* The operations of a Model                                               *)
(***************************************************************************)
ModelSet(e, data) ==
    /\ e \in held
    /\ Becomes(modelSet(Now, e, data))
    /\ last' = [op |-> "set", e |-> e]
    /\ UNCHANGED requests /\ UNCHANGED assigned /\ Idle

ModelReset(e, data) ==
    /\ e \in held
    /\ Becomes(modelReset(Now, e, data))
    /\ last' = [op |-> "reset", e |-> e]
    /\ UNCHANGED requests /\ UNCHANGED assigned /\ Idle

ModelCommitChanges(e) ==
    /\ e \in held
    /\ Becomes(commitChanges(Now, e))
    /\ last' = [op |-> "commitChanges", e |-> e]
    /\ UNCHANGED requests /\ UNCHANGED assigned /\ Idle

ModelDiscardChanges(e) ==
    /\ e \in held
    /\ Becomes(discardChanges(Now, e))
    /\ last' = [op |-> "discardChanges", e |-> e]
    /\ UNCHANGED requests /\ UNCHANGED assigned /\ Idle

\* new Model(attributes, defaultAttributes) by the caller, who holds it
ModelConstruct(attrs, defaults) ==
    /\ Becomes([constructor(Now, attrs, defaults)
                   EXCEPT !.held = @ \cup {NextEntity(Now)}])
    /\ last' = [op |-> "construct", e |-> NextEntity(Now)]
    /\ UNCHANGED requests /\ UNCHANGED assigned /\ Idle

ModelSave(e, attrs, optimistic, patch, keepChanges) ==
    /\ e \in held
    /\ CanIssue
    /\ Becomes(saveOptimistic(Now, e, attrs, optimistic, patch))
    /\ requests' = Issue(saveRequest(Now, e, attrs, optimistic, patch, keepChanges,
                                     "no", FALSE, NoCollection))
    /\ last' = [op |-> "save", e |-> e]
    /\ UNCHANGED assigned /\ Idle

SaveSuccess(r, data) ==
    /\ r \in Pending /\ r.kind = "save"
    /\ data \in Responses(r)
    /\ Becomes(createSucceeded(saveSucceeded(Now, r, data), r))
    /\ requests' = Settle(r)
    /\ last' = [op |-> "saveSuccess", e |-> r.e]
    /\ Assigns(r.e, data) /\ Idle

SaveFailure(r) ==
    /\ r \in Pending /\ r.kind = "save"
    /\ Becomes(createFailed(saveFailed(Now, r), r))
    /\ requests' = Settle(r)
    /\ last' = [op |-> "saveFailure", e |-> r.e]
    /\ UNCHANGED assigned /\ Idle

\* fetch is called on an entity the server knows (its url names its key).
\* The entities' class implements urlRoot, so that url() also answers for an
\* entity no set owns.
ModelFetch(e) ==
    /\ e \in held
    /\ ~isNew(e)
    /\ CanIssue
    /\ requests' = Issue(Request("fetch", e, NoCollection, EmptyObject,
                                 get(e, primaryKey), FALSE, FALSE, "no", FALSE,
                                 DefaultOpts))
    /\ last' = [op |-> "fetch", e |-> e]
    /\ UNCHANGED <<alive, attributes, committedAttributes, collection, models, held>>
    /\ UNCHANGED registry /\ UNCHANGED assigned /\ Idle

FetchSuccess(r, data) ==
    /\ r \in Pending /\ r.kind = "fetch"
    /\ data \in Responses(r)
    /\ Becomes(fetchSucceeded(Now, r, data))
    /\ requests' = Settle(r)
    /\ last' = [op |-> "fetchSuccess", e |-> r.e]
    /\ Assigns(r.e, data) /\ Idle

FetchFailure(r) ==
    /\ r \in Pending /\ r.kind = "fetch"
    /\ Becomes(fetchFailed(Now, r))
    /\ requests' = Settle(r)
    /\ last' = [op |-> "fetchFailure", e |-> r.e]
    /\ UNCHANGED assigned /\ Idle

ModelDestroy(e, optimistic) ==
    /\ e \in held
    /\ IF isNew(e) THEN TRUE ELSE CanIssue
    /\ Becomes(destroyNow(Now, e, optimistic))
    /\ requests' = IF isNew(e) THEN requests
                   ELSE Issue(Request("destroy", e, collection[e], EmptyObject,
                                      get(e, primaryKey), optimistic, FALSE, "no",
                                      FALSE, DefaultOpts))
    /\ last' = [op |-> "destroy", e |-> e]
    /\ UNCHANGED assigned /\ Idle

DestroySuccess(r) ==
    /\ r \in Pending /\ r.kind = "destroy"
    /\ Becomes(destroySucceeded(Now, r))
    /\ requests' = Settle(r)
    /\ last' = [op |-> "destroySuccess", e |-> r.e]
    /\ UNCHANGED assigned /\ Idle

DestroyFailure(r) ==
    /\ r \in Pending /\ r.kind = "destroy"
    /\ Becomes(destroyFailed(Now, r))
    /\ requests' = Settle(r)
    /\ last' = [op |-> "destroyFailure", e |-> r.e]
    /\ UNCHANGED assigned /\ Idle

(***************************************************************************)
(* The operations of a Collection                                          *)
(***************************************************************************)
\* build(attributes) and build(model): the model is returned to the caller.
CollectionBuild(s, x) ==
    /\ x.isModel => x.e \in held
    /\ Becomes([build(Now, s, x) EXCEPT !.held = @ \cup {built(Now, x)}])
    /\ last' = [op |-> "build", e |-> built(Now, x)]
    /\ UNCHANGED requests /\ UNCHANGED assigned /\ Idle

CollectionAdd(s, x) ==
    /\ x.isModel => x.e \in held /\ CallerMayAdd(s, x.e)
    /\ Becomes(add(Now, s, <<x>>))
    /\ last' = [op |-> "add", e |-> built(Now, x)]
    /\ UNCHANGED requests /\ UNCHANGED assigned /\ Idle

CollectionReset(s, data) ==
    /\ Becomes(reset(Now, s, [i \in 1..Len(data) |-> Raw(data[i])]))
    /\ last' = [op |-> "resetAll", e |-> NoEntity]
    /\ UNCHANGED requests /\ UNCHANGED assigned /\ Idle

CollectionRemove(s, x) ==
    /\ x.isModel => x.e \in held
    /\ Becomes(remove(Now, s, <<x>>))
    /\ last' = [op |-> "remove", e |-> NoEntity]
    /\ UNCHANGED requests /\ UNCHANGED assigned /\ Idle

CollectionSet(s, resources, opts) ==
    /\ Becomes(collectionSet(Now, s, resources, opts))
    /\ last' = [op |-> "setAll", e |-> NoEntity]
    /\ UNCHANGED requests /\ UNCHANGED assigned /\ Idle

\* create: build, model.save() with its defaults, then add if optimistic.
CollectionCreate(s, x, optimistic) ==
    /\ x.isModel => x.e \in held /\ CallerMayAdd(s, x.e)
    /\ CanIssue
    /\ LET e == built(Now, x)
           b == build(Now, s, x)
           saved == IF b.overflow THEN b
                    ELSE saveOptimistic(b, e, NoAttributes, TRUE, TRUE)
           request == saveRequest(b, e, NoAttributes, TRUE, TRUE, FALSE,
                                  IF optimistic THEN "optimistic" ELSE "deferred",
                                  ~x.isModel, s) IN
       /\ ~b.overflow
       /\ Becomes(createNow(requestsPush(saved, s, request), s, e, optimistic))
       /\ requests' = Issue(request)
       /\ last' = [op |-> "create", e |-> e]
    /\ UNCHANGED assigned /\ Idle

CollectionFetch(s, opts) ==
    /\ CanIssue
    /\ requests' = Issue(Request("fetchAll", NoEntity, s, EmptyObject, Undef,
                                 FALSE, FALSE, "no", FALSE, opts))
    /\ last' = [op |-> "fetchAll", e |-> NoEntity]
    /\ UNCHANGED <<alive, attributes, committedAttributes, collection, models, held>>
    /\ UNCHANGED registry /\ UNCHANGED assigned /\ Idle

FetchAllSuccess(r, data) ==
    /\ r \in Pending /\ r.kind = "fetchAll"
    /\ Becomes(fetchAllSucceeded(Now, r, data))
    /\ requests' = Settle(r)
    /\ last' = [op |-> "fetchAllSuccess", e |-> NoEntity]
    /\ UNCHANGED assigned /\ Idle

FetchAllFailure(r) ==
    /\ r \in Pending /\ r.kind = "fetchAll"
    /\ Becomes(fetchAllFailed(Now, r))
    /\ requests' = Settle(r)
    /\ last' = [op |-> "fetchAllFailure", e |-> NoEntity]
    /\ UNCHANGED assigned /\ Idle

(***************************************************************************)
(* The diff/patch computation on its own                                   *)
(***************************************************************************)
ComputeChanges ==
    /\ pstage = "input"
    /\ pchanges' = getChangesBetween(pa, pb)
    /\ pstage' = "diffed"
    /\ UNCHANGED <<pa, pb, ppatched>> /\ UNCHANGED entityVars

ApplyChanges ==
    /\ pstage = "diffed"
    /\ ppatched' = applyPatchChanges(pa, pchanges)
    /\ pstage' = "patched"
    /\ UNCHANGED <<pa, pb, pchanges>> /\ UNCHANGED entityVars

(***************************************************************************)
(* Specifications                                                          *)
(***************************************************************************)
NoEntities ==
    /\ alive = {}
    /\ attributes = [e \in Entities |-> EmptyObject]
    /\ committedAttributes = [e \in Entities |-> EmptyObject]
    /\ collection = [e \in Entities |-> NoCollection]
    /\ models = [s \in Sets |-> <<>>]
    /\ held = {}
    /\ assigned = [e \in Entities |-> Undef]
    /\ requests = EmptyBag
    /\ registry = [s \in Sets |-> <<>>]
    /\ last = [op |-> "init", e |-> NoEntity]

NoPatch ==
    /\ pa = EmptyObject /\ pb = EmptyObject
    /\ pchanges = EmptyObject /\ ppatched = EmptyObject
    /\ pstage = "idle"

\* Spec: a collection, constructed empty, whose caller uses set, fetch,
\* create and destroy (and fetches its members), with the completions of
\* the requests in flight in any order.
Init == NoEntities /\ NoPatch

Next ==
    \/ \E s \in Sets, rs \in ResourceLists, opts \in AllOpts : CollectionSet(s, rs, opts)
    \/ \E s \in Sets, d \in CallerData, o \in BOOLEAN : CollectionCreate(s, Raw(d), o)
    \/ \E s \in Sets, e \in Entities, o \in BOOLEAN : CollectionCreate(s, AModel(e), o)
    \/ \E s \in Sets, opts \in AllOpts : CollectionFetch(s, opts)
    \/ \E r \in Pending, rs \in ResourceLists : FetchAllSuccess(r, rs)
    \/ \E r \in Pending : FetchAllFailure(r)
    \/ \E e \in Entities, o \in BOOLEAN : ModelDestroy(e, o)
    \/ \E r \in Pending : DestroySuccess(r)
    \/ \E r \in Pending : DestroyFailure(r)
    \/ \E e \in Entities : ModelFetch(e)
    \/ \E r \in Pending, d \in Resources : FetchSuccess(r, d)
    \/ \E r \in Pending : FetchFailure(r)
    \/ \E r \in Pending, d \in Resources : SaveSuccess(r, d)
    \/ \E r \in Pending : SaveFailure(r)

Spec == Init /\ [][Next]_vars

\* SpecMembership: a collection whose caller uses build, add, reset, remove,
\* create and destroy.
NextMembership ==
    \/ \E s \in Sets, d \in CallerData \cup {EmptyObject} : CollectionBuild(s, Raw(d))
    \/ \E s \in Sets, e \in Entities : CollectionBuild(s, AModel(e))
    \/ \E s \in Sets, d \in CallerData : CollectionAdd(s, Raw(d))
    \/ \E s \in Sets, e \in Entities : CollectionAdd(s, AModel(e))
    \/ \E s \in Sets, data \in ResourceLists : CollectionReset(s, data)
    \/ \E s \in Sets, e \in Entities : CollectionRemove(s, AModel(e))
    \/ \E s \in Sets, v \in AnyIds : CollectionRemove(s, AnId(v))
    \/ \E s \in Sets, d \in CallerData, o \in BOOLEAN : CollectionCreate(s, Raw(d), o)
    \/ \E s \in Sets, e \in Entities, o \in BOOLEAN : CollectionCreate(s, AModel(e), o)
    \/ \E e \in Entities, o \in BOOLEAN : ModelDestroy(e, o)
    \/ \E r \in Pending : DestroySuccess(r)
    \/ \E r \in Pending : DestroyFailure(r)
    \/ \E r \in Pending, d \in Resources : SaveSuccess(r, d)
    \/ \E r \in Pending : SaveFailure(r)

SpecMembership == Init /\ [][NextMembership]_vars

\* SpecLifecycle: SpecMembership's caller, who also resets the entities it
\* holds to their defaults.
NextLifecycle ==
    \/ NextMembership
    \/ \E e \in Entities : ModelReset(e, EmptyObject)

SpecLifecycle == Init /\ [][NextLifecycle]_vars

\* SpecModel: one entity, constructed by the caller, with a urlRoot of its
\* own and no collection.
InitModel ==
    /\ alive = {1}
    /\ \E d \in CallerDataWithId \cup {EmptyObject} :
          /\ attributes = [e \in Entities |-> IF e = 1 THEN Merge(defaultAttributes, d)
                                              ELSE EmptyObject]
          /\ committedAttributes = attributes
    /\ collection = [e \in Entities |-> NoCollection]
    /\ models = [s \in Sets |-> <<>>]
    /\ held = {1}
    /\ assigned = [e \in Entities |-> Undef]
    /\ requests = EmptyBag
    /\ registry = [s \in Sets |-> <<>>]
    /\ last = [op |-> "init", e |-> NoEntity]
    /\ NoPatch

NextModel ==
    \/ \E e \in Entities, d \in CallerDataWithId : ModelSet(e, d)
    \/ \E e \in Entities, d \in CallerData \cup {EmptyObject} : ModelReset(e, d)
    \/ \E e \in Entities : ModelCommitChanges(e)
    \/ \E e \in Entities : ModelDiscardChanges(e)
    \/ \E e \in Entities, a \in CallerData \cup {NoAttributes},
          o \in BOOLEAN, p \in BOOLEAN, k \in BOOLEAN : ModelSave(e, a, o, p, k)
    \/ \E r \in Pending, d \in Resources : SaveSuccess(r, d)
    \/ \E r \in Pending : SaveFailure(r)
    \/ \E e \in Entities : ModelFetch(e)
    \/ \E r \in Pending, d \in Resources : FetchSuccess(r, d)
    \/ \E r \in Pending : FetchFailure(r)

SpecModel == InitModel /\ [][NextModel]_vars

\* SpecConstruct: a caller who constructs entities from its attributes and
\* the defaults of their class, then edits them with set, commitChanges and
\* discardChanges.
DefaultData ==
    {Merge(n, m) : n \in MapsOver({"name"}, Scalars \cup {ArrV(<<Num(0)>>)}),
                   m \in MapsOver({"meta"},
                                  {ObjV(o) : o \in MapsOver({"x"}, Scalars)})}

NextConstruct ==
    \/ \E a \in CallerDataWithId \cup {EmptyObject}, d \in DefaultData :
          ModelConstruct(a, d)
    \/ \E e \in Entities, d \in CallerDataWithId : ModelSet(e, d)
    \/ \E e \in Entities : ModelCommitChanges(e)
    \/ \E e \in Entities : ModelDiscardChanges(e)

SpecConstruct == Init /\ [][NextConstruct]_vars

\* SpecRegistry: a collection whose caller only creates, from attributes or
\* from an entity none of whose saves is in flight; every save in flight is
\* answered in the end, and the handlers chained on its promise then run.
NoSaveInFlight(e) == ~\E r \in Pending : r.e = e

SaveSettles(e) ==
    \E r \in Pending :
       /\ r.e = e
       /\ SaveFailure(r) \/ \E d \in Resources : SaveSuccess(r, d)

NextRegistry ==
    \/ \E s \in Sets, d \in CallerData, o \in BOOLEAN : CollectionCreate(s, Raw(d), o)
    \/ \E s \in Sets, e \in Entities, o \in BOOLEAN :
          NoSaveInFlight(e) /\ CollectionCreate(s, AModel(e), o)
    \/ \E s \in Sets, e \in Entities : CollectionRemove(s, AModel(e))
    \/ \E e \in Entities, d \in CallerData \cup {EmptyObject} : ModelReset(e, d)
    \/ \E r \in Pending, d \in Resources : SaveSuccess(r, d)
    \/ \E r \in Pending : SaveFailure(r)

SpecRegistry ==
    Init /\ [][NextRegistry]_vars /\ \A e \in Entities : WF_vars(SaveSettles(e))

\* SpecReconcile: a collection whose caller uses set and fetch with every
\* combination of options, and edits the members it reads from the set.
NextReconcile ==
    \/ \E s \in Sets, rs \in ResourceLists, opts \in AllOpts : CollectionSet(s, rs, opts)
    \/ \E s \in Sets, opts \in AllOpts : CollectionFetch(s, opts)
    \/ \E r \in Pending, rs \in ResourceLists : FetchAllSuccess(r, rs)
    \/ \E r \in Pending : FetchAllFailure(r)
    \/ \E e \in Entities, d \in CallerData : ModelSet(e, d)
    \/ \E e \in Entities : ModelCommitChanges(e)

SpecReconcile == Init /\ [][NextReconcile]_vars

\* SpecPatch: getChangesBetween and applyPatchChanges on every pair of
\* plain structures.
InitPatch ==
    /\ NoEntities
    /\ pa \in PlainStructures /\ pb \in PlainStructures
    /\ pchanges = EmptyObject /\ ppatched = EmptyObject
    /\ pstage = "input"

NextPatch == ComputeChanges \/ ApplyChanges

SpecPatch == InitPatch /\ [][NextPatch]_vars

(***************************************************************************)
(* Claims                                                                  *)
(***************************************************************************)
IsMember(e, s) == e \in Members(models[s])
LastOf(seq) == seq[Len(seq)]

\* C1: when a save() with optimistic = true fails, the working attributes
\* are exactly the snapshot taken at the start of save(): the same keys and
\* the same values.
C1_SaveFailureRestoresSnapshot ==
    [][\A r \in Pending :
          (r.kind = "save" /\ r.optimistic /\ SaveFailure(r))
              => attributes'[r.e] = r.currentAttributes]_vars

\* C2: Collection.set with remove and add enabled ends with no member whose
\* id is absent from the resources' ids, one member for every id of the
\* resources that was not present before, and the members neither removed
\* nor added in their prior relative order.
ReconcileResult(s, rs) ==
    LET R == {rs[i]["id"] : i \in 1..Len(rs)}
        before == models[s]
        after == models'[s]
        idsBefore == {idOf(attributes[m], m) : m \in Members(before)}
    IN  /\ \A m \in Members(after) : idOf(attributes'[m], m) \in R
        /\ \A v \in R \ idsBefore :
              Cardinality({i \in 1..Len(after) :
                              idOf(attributes'[after[i]], after[i]) = v}) = 1
        /\ SelectSeq(before, LAMBDA m : m \in Members(after))
              = SelectSeq(after, LAMBDA m : m \in Members(before))

C2_ReconcileMatchesResources ==
    [][\A s \in Sets, rs \in ResourceLists, opts \in AllOpts :
          (last'.op = "setAll" /\ opts.remove /\ opts.add
             /\ CollectionSet(s, rs, opts))
              => ReconcileResult(s, rs)]_vars

\* C3: no two members of a set share an id, the caller using only set,
\* fetch, create and destroy and the requests completing in any order.
C3_MemberIdsUnique ==
    \A s \in Sets : \A i, j \in 1..Len(models[s]) :
        i # j => id(models[s][i]) # id(models[s][j])

\* C4: destroy({optimistic: true}) on a persisted entity that a set owns
\* takes it out of the set's members in the step of the call; if
\* the request then fails the entity is the last member of that set and its
\* collection is that set.
C4_OptimisticDestroyRemovesThenRestores ==
    [][/\ \A e \in Entities :
            (/\ last'.op = "destroy"
             /\ ~isNew(e)
             /\ collection[e] # NoCollection
             /\ ModelDestroy(e, TRUE))
                => e \notin Members(models'[collection[e]])
       /\ \A r \in Pending :
            (r.kind = "destroy" /\ r.optimistic /\ r.s # NoCollection
               /\ DestroyFailure(r))
                => /\ models'[r.s] # <<>>
                   /\ LastOf(models'[r.s]) = r.e
                   /\ collection'[r.e] = r.s]_vars

\* C5: after create(attrs, {optimistic: false}) the new entity is not a
\* member of the set while its save is in flight; it is a member once the
\* save has succeeded, and it never becomes one if the save fails (nothing
\* but the success of its save hands the entity to the set or the caller).
DeferredCreate(r) == r.kind = "save" /\ r.created = "deferred" /\ r.fresh

C5_DeferredCreateJoinsOnSuccessOnly ==
    /\ [](\A r \in Pending : DeferredCreate(r) =>
              r.e \notin held /\ ~IsMember(r.e, r.s))
    /\ [](\A e \in alive \ held : \A s \in Sets : ~IsMember(e, s))
    /\ [][/\ \A r \in Pending : DeferredCreate(r) =>
               /\ (\E d \in Resources : SaveSuccess(r, d))
                     => r.e \in Members(models'[r.s])
               /\ SaveFailure(r)
                     => r.e \notin held' /\ r.e \notin Members(models'[r.s])
           /\ \A e \in alive \ held :
                 e \in held' =>
                    \E q \in Pending, d \in Resources :
                        q.e = e /\ DeferredCreate(q) /\ SaveSuccess(q, d)]_vars

\* C5's case: a deferred create has run and its save is in flight, the
\* entity built and owned by the set but not among its members.
C5_Witness ==
    /\ last.op = "create"
    /\ \E r \in Pending :
          /\ DeferredCreate(r) /\ r.e = last.e
          /\ r.e \in alive /\ collection[r.e] = r.s
          /\ ~IsMember(r.e, r.s)
          /\ models[r.s] # <<>>

\* C6: once a server response has given an entity's primary key a value,
\* the entity's id is that value ever after.
C6_IdStableOnceAssigned ==
    \A e \in alive : assigned[e] # Undef => id(e) = assigned[e]

\* C7: an entity is among the members of a set exactly when its collection
\* is that set (so it is a member of at most one set).
C7_MembershipIsOwnership ==
    \A e \in alive : \A s \in Sets : IsMember(e, s) <=> collection[e] = s

\* C9: an entity's id is its primary-key attribute when that is present and
\* truthy, and its optimisticId otherwise, also when the attribute is
\* present but falsy.
C9_IdIsTruthyKeyOrOptimisticId ==
    \A e \in alive :
        id(e) = IF has(e, primaryKey) /\ Truthy(get(e, primaryKey))
                THEN get(e, primaryKey) ELSE optimisticId(e)

\* C10: when the fetch of an entity or of a set fails, the entities, their
\* working and committed attributes and owners, and the sets' members and
\* their order are what they were.
C10_FetchFailureChangesNothing ==
    [][\A r \in Pending :
          ((r.kind = "fetch" /\ FetchFailure(r))
             \/ (r.kind = "fetchAll" /\ FetchAllFailure(r)))
              => UNCHANGED <<alive, attributes, committedAttributes,
                             collection, models>>]_vars

\* C10's case: the fetch of a set that has a member with uncommitted
\* changes has just failed.
C10_Witness ==
    /\ last.op = "fetchAllFailure"
    /\ \E s \in Sets : \E m \in Members(models[s]) :
          hasChanges(m) /\ collection[m] = s

RECURSIVE NoArrayIn(_)
NoArrayIn(o) ==
    \A k \in DOMAIN o :
        /\ ~isArray(o[k])
        /\ isPlainObject(o[k]) => NoArrayIn(o[k].o)

\* Every key of a is a key of b, also inside the objects both hold.
RECURSIVE KeepsKeys(_, _)
KeepsKeys(a, b) ==
    /\ DOMAIN a \subseteq DOMAIN b
    /\ \A k \in DOMAIN a :
          (isPlainObject(a[k]) /\ isPlainObject(b[k])) => KeepsKeys(a[k].o, b[k].o)

\* C8 as stated: for all plain structures a and b without array-valued
\* fields, applyPatchChanges(a, getChangesBetween(a, b)) deep-equals b, also
\* when b lacks keys of a.
C8_PatchedEqualsTarget ==
    (pstage = "patched" /\ NoArrayIn(pa) /\ NoArrayIn(pb))
        => isEqual(ObjV(ppatched), ObjV(pb))

\* C8 as amended: for all plain structures a and b without array-valued
\* fields in which b has every key of a (at the top level and inside every
\* nested object both hold under a key), applyPatchChanges(a,
\* getChangesBetween(a, b)) deep-equals b.
C8_PatchedEqualsTargetKeepingKeys ==
    (pstage = "patched" /\ NoArrayIn(pa) /\ NoArrayIn(pb) /\ KeepsKeys(pa, pb))
        => isEqual(ObjV(ppatched), ObjV(pb))

\* C8's case: a nested object changed in one key and given a new one, a
\* top-level key added, and the patch applied.
C8_Witness ==
    /\ pstage = "patched"
    /\ NoArrayIn(pa) /\ NoArrayIn(pb) /\ KeepsKeys(pa, pb)
    /\ DOMAIN pa = {"meta"} /\ DOMAIN pb = {"meta", "name"}
    /\ isPlainObject(pa["meta"]) /\ isPlainObject(pb["meta"])
    /\ DOMAIN pa["meta"].o = {"x"} /\ DOMAIN pb["meta"].o = {"x", "y"}
    /\ pa["meta"].o["x"] # pb["meta"].o["x"]
    /\ DOMAIN pchanges = {"meta", "name"}
    /\ isEqual(ObjV(ppatched), ObjV(pb))


\* C11: destroy() on an entity that is new issues no request (the operation
\* it returns is resolved from the start); if a set owns the entity, the
\* entity is not among that set's members after the call and its collection
\* is cleared.
C11_DestroyOfNewEntityIsLocal ==
    [][\A e \in Entities, o \in BOOLEAN :
          (last'.op = "destroy" /\ isNew(e) /\ ModelDestroy(e, o))
              => /\ requests' = requests
                 /\ collection[e] # NoCollection =>
                       /\ e \notin Members(models'[collection[e]])
                       /\ collection'[e] = NoCollection]_vars


\* C12: destroy({optimistic: false}) on a persisted entity that a set owns
\* changes no set's members and no owner in the step of the call; when the
\* request fails nothing changes either (the entity keeps its position);
\* when it succeeds the entity is no longer among the members of the set.
C12_DeferredDestroyRemovesOnSuccessOnly ==
    [][/\ \A e \in Entities :
            (/\ last'.op = "destroy"
             /\ ~isNew(e)
             /\ collection[e] # NoCollection
             /\ ModelDestroy(e, FALSE))
                => models' = models /\ collection' = collection
       /\ \A r \in Pending :
            (r.kind = "destroy" /\ ~r.optimistic /\ r.s # NoCollection)
                => /\ DestroyFailure(r)
                        => models' = models /\ collection' = collection
                   /\ DestroySuccess(r)
                        => r.e \notin Members(models'[r.s])]_vars

\* A sequence without the occurrences of one entity
Without(seq, e) == SelectSeq(seq, LAMBDA m : m # e)

\* C13: create(attrs) with optimistic = true makes the entity it builds a
\* member of the set in the step of the call; when the save fails the entity
\* is not a member any more and the other members are all there, in the
\* order they had.
C13_OptimisticCreateAddsThenRollsBack ==
    [][/\ \A s \in Sets, d \in CallerData :
            (last'.op = "create" /\ CollectionCreate(s, Raw(d), TRUE))
                => built(Now, Raw(d)) \in Members(models'[s])
       /\ \A r \in Pending :
            (r.kind = "save" /\ r.created = "optimistic" /\ r.fresh
               /\ SaveFailure(r))
                => /\ r.e \notin Members(models'[r.s])
                   /\ models'[r.s] = Without(models[r.s], r.e)]_vars

\* The attributes the caller changed while the save was in flight: those
\* whose working value at the arrival of the response is not the one save()
\* left.
ChangedInFlight(r) ==
    {k \in DOMAIN attributes[r.e] \cup DOMAIN r.working :
        Prop(attributes[r.e], k) # Prop(r.working, k)}

\* C14: when a save with keepChanges = true succeeds, every attribute the
\* caller changed while it was in flight keeps the caller's value in the
\* working attributes, and its committed value is the response's, or where
\* the response has none the value of the state before (committed, or as
\* save() found or left the working attributes): an edit that differs from
\* it is reported by changes.
C14_KeepChangesKeepsEditsUncommitted ==
    [][\A r \in Pending, d \in Resources :
          (r.kind = "save" /\ r.keepChanges /\ SaveSuccess(r, d))
              => \A k \in ChangedInFlight(r) :
                    /\ Prop(attributes'[r.e], k) = Prop(attributes[r.e], k)
                    /\ Prop(committedAttributes'[r.e], k) \in
                          IF k \in DOMAIN d THEN {d[k]}
                          ELSE {Prop(committedAttributes[r.e], k),
                                Prop(r.currentAttributes, k),
                                Prop(r.working, k)}]_vars

\* The requests a step has put in flight.
Issued == {r \in BagToSet(requests') : CopiesIn(r, requests') > CopiesIn(r, requests)}

\* C15: save() issues one request, chosen from the state at the call: a POST
\* of the working attributes merged with the override when the entity is
\* new; a PATCH of the explicit attributes, or without them of the current
\* changes, when it is not new and patch is true; a PUT of the working
\* attributes merged with the override when it is not new and patch is false.
C15_SaveChoosesVerbAndPayload ==
    [][\A e \in Entities, a \in CallerData \cup {NoAttributes},
          o \in BOOLEAN, p \in BOOLEAN, k \in BOOLEAN :
          (last'.op = "save" /\ ModelSave(e, a, o, p, k))
              => \E r \in Issued :
                    /\ Issued = {r}
                    /\ r.method = IF isNew(e) THEN "post"
                                  ELSE IF p THEN "patch" ELSE "put"
                    /\ r.data = IF ~isNew(e) /\ p
                                THEN (IF a # NoAttributes THEN a ELSE changes(e))
                                ELSE IF a # NoAttributes THEN Merge(attributes[e], a)
                                ELSE attributes[e]]_vars

\* A PATCH of the current changes is in flight, and they are not all the
\* attributes.
C15_Witness ==
    /\ last.op = "save"
    /\ \E r \in Pending :
          /\ r.kind = "save" /\ r.method = "patch"
          /\ r.data # EmptyObject /\ r.data # r.currentAttributes
          /\ r.data = getChangesBetween(committedAttributes[r.e], r.currentAttributes)

\* The keys under which two plain objects hold different values, a key one
\* of them lacks included.
Differing(a, b) == {k \in DOMAIN a \cup DOMAIN b : Prop(a, k) # Prop(b, k)}

\* C16: the changes between the committed attributes (pa) and the working
\* ones (pb) have exactly the top-level keys whose values differ; under a key
\* where both values are plain objects they hold an object with exactly the
\* sub-keys that differ, each with its working value, and under any other
\* key (a scalar, an array or no value on either side) the whole working
\* value.
C16_ChangesAreNestedDiff ==
    pstage # "input"
        => /\ DOMAIN pchanges = Differing(pa, pb)
           /\ \A k \in DOMAIN pchanges :
                 IF isPlainObject(Prop(pa, k)) /\ isPlainObject(Prop(pb, k))
                 THEN /\ isPlainObject(pchanges[k])
                      /\ DOMAIN pchanges[k].o = Differing(pa[k].o, pb[k].o)
                      /\ \A j \in DOMAIN pchanges[k].o :
                            pchanges[k].o[j] = Prop(pb[k].o, j)
                 ELSE pchanges[k] = Prop(pb, k)

\* The claim's example: committed {name: 0, meta: {x: 0, y: 0}}, the working
\* attributes differ in meta.y = 1 only, and the changes are {meta: {y: 1}}.
C16_Witness ==
    /\ pstage = "diffed"
    /\ pa = [name |-> Num(0), meta |-> ObjV([x |-> Num(0), y |-> Num(0)])]
    /\ pb = [name |-> Num(0), meta |-> ObjV([x |-> Num(0), y |-> Num(1)])]
    /\ pchanges = [meta |-> ObjV([y |-> Num(1)])]

\* C17: right after new Model(attributes, defaultAttributes), whatever the
\* two hold, the committed attributes deep-equal the working ones and
\* hasChanges() is false.
C17_ConstructedIsClean ==
    last.op = "construct"
        => /\ isEqual(ObjV(committedAttributes[last.e]), ObjV(attributes[last.e]))
           /\ ~hasChanges(last.e)

\* An entity just constructed from attributes that override a default and
\* with a default nested object the caller did not give.
C17_Witness ==
    /\ last.op = "construct"
    /\ attributes[last.e] = [id |-> Num(1), name |-> Num(1),
                             meta |-> ObjV([x |-> Num(0)])]
    /\ \E f \in alive \ {last.e} : hasChanges(f)

\* C18: remove(x) on a set, x an entity the set owns or an id, and the
\* remove a destroy() of an owned entity runs at once, leave every member
\* other than the one x resolves to in the members, in the order they had.
C18_RemoveLeavesOthersInPlace ==
    [][/\ \A s \in Sets, e \in Entities :
            (last'.op = "remove" /\ CollectionRemove(s, AModel(e)))
                => Without(models'[s], e) = Without(models[s], e)
       /\ \A s \in Sets, v \in AnyIds :
            (last'.op = "remove" /\ CollectionRemove(s, AnId(v)))
                => Without(models'[s], collectionGet(Now, s, v))
                      = Without(models[s], collectionGet(Now, s, v))
       /\ \A e \in Entities, o \in BOOLEAN :
            (last'.op = "destroy" /\ collection[e] # NoCollection /\ ModelDestroy(e, o))
                => Without(models'[collection[e]], e)
                      = Without(models[collection[e]], e)]_vars

\* How often a request is listed in a registry.
Listed(r, reg) == Cardinality({i \in 1..Len(reg) : reg[i] = r})

\* C19: the request Collection.create returns is in the set's requests right
\* after the call; every create's save still in flight is in them; the step
\* that settles it, as a success or as a failure, optimistic or not, takes
\* it out; and every request in them is out of them in the end.
C19_CreateRequestIsRegisteredWhilePending ==
    /\ [][\A s \in Sets, e \in Entities, o \in BOOLEAN :
            (last'.op = "create" /\ last'.e = e /\ collection'[e] = s
             /\ (CollectionCreate(s, AModel(e), o)
                 \/ \E d \in CallerData : CollectionCreate(s, Raw(d), o)))
                => \E r \in Issued :
                      /\ r.created = IF o THEN "optimistic" ELSE "deferred"
                      /\ Listed(r, registry'[s]) = Listed(r, registry[s]) + 1]_vars
    /\ [](\A r \in Pending : r.created # "no" => Listed(r, registry[r.s]) > 0)
    /\ [][\A r \in Pending :
            (r.created # "no" /\ (SaveFailure(r) \/ \E d \in Resources : SaveSuccess(r, d)))
                => Listed(r, registry'[r.s]) = Listed(r, registry[r.s]) - 1]_vars
    /\ \A s \in Sets, e \in Entities :
          (\E i \in 1..Len(registry[s]) : registry[s][i].e = e)
              ~> ~(\E i \in 1..Len(registry[s]) : registry[s][i].e = e)

\* The save of a deferred create has just failed and the set's requests are
\* empty again.
C19_Witness ==
    /\ last.op = "saveFailure"
    /\ collection[last.e] # NoCollection
    /\ ~IsMember(last.e, collection[last.e])
    /\ registry[collection[last.e]] = <<>>
    /\ requests = EmptyBag

\* What Collection.set may not do under the options it is given: with
\* change = false the attributes, working and committed, of the members are
\* as before; with add = false every member was one before; with
\* remove = false every member still is one.
SetKeepsTo(s, opts) ==
    /\ ~opts.change =>
          \A m \in Members(models[s]) :
             /\ attributes'[m] = attributes[m]
             /\ committedAttributes'[m] = committedAttributes[m]
    /\ ~opts.add => Members(models'[s]) \subseteq Members(models[s])
    /\ ~opts.remove => Members(models[s]) \subseteq Members(models'[s])

\* C20: Collection.set, called by the caller or by the success handler of a
\* collection fetch with the options the fetch was given, changes no
\* attribute of a member under change = false, adds no member under
\* add = false and removes none under remove = false: a step that does one
\* of these is not a set with such options, and the set a fetch's response
\* runs keeps to the options of the fetch.
C20_SetHonoursOptions ==
    [][/\ \A s \in Sets, opts \in AllOpts :
            (last'.op = "setAll" /\ ~SetKeepsTo(s, opts))
                => ~\E rs \in ResourceLists : CollectionSet(s, rs, opts)
       /\ \A r \in Pending :
            (/\ last'.op = "fetchAllSuccess" /\ r.kind = "fetchAll"
             /\ \E rs \in ResourceLists : FetchAllSuccess(r, rs))
                => SetKeepsTo(r.s, r.opts)]_vars

\* A fetch with change = false has answered: a member with an uncommitted
\* edit, whose resource came with another name, kept it, and a new member
\* was added.
C20_Witness ==
    /\ last.op = "fetchAllSuccess"
    /\ \E s \in Sets :
          /\ Len(models[s]) = 2
          /\ \E m \in Members(models[s]) :
                /\ has(m, "name") /\ ~("name" \in DOMAIN committedAttributes[m])
                /\ hasChanges(m)
====
